---- MODULE Spec2Model ----
(***************************************************************************)
(* Knowledge Retrieval Engine of application-bot-ai.                       *)
(*                                                                         *)
(* A knowledge source (KnowledgeBaseFile) is submitted through the API     *)
(* (KnowledgeBaseFileSerializer.create), ingested by                       *)
(* process_knowledge_file / process_knowledge_file_embeddings, edited      *)
(* through the API (ModelViewSet update) and searched by semantic_search.  *)
(*                                                                         *)
(* A text is a sequence of one-character strings.  None is Null.           *)
(* Storage writes (save) are taken to succeed.                             *)
(*                                                                         *)
(* Spec        the life cycle of a source: submission, ingestion runs,     *)
(*             edits and direct re-runs                                    *)
(* SpecSearch  semantic_search over a table of stored rows                 *)
(* SpecRag     build_rag_context over a table of stored rows               *)
(* SpecCosine  cosine_similarity on bounded vectors                        *)
(* SpecEmbed   generate_embeddings on bounded texts and responses          *)
(* SpecChunk   chunk_text, one paragraph of its loop at a time             *)
(***************************************************************************)
EXTENDS Integers, Sequences, FiniteSets, TLC

Null == "None"

NL == "\n"

SP == " "

\* ---------------------------------------------------------------------
\* Python string helpers used by the code
\* ---------------------------------------------------------------------

\* str.isspace() of one character
IsSpace(c) == c \in {SP, NL}

RECURSIVE LStrip(_)
LStrip(t) == IF t # <<>> /\ IsSpace(Head(t)) THEN LStrip(Tail(t)) ELSE t

RECURSIVE RStrip(_)
RStrip(t) ==
    IF t # <<>> /\ IsSpace(t[Len(t)]) THEN RStrip(SubSeq(t, 1, Len(t) - 1)) ELSE t

\* str.strip()
Strip(t) == RStrip(LStrip(t))

\* the separator "\n\n"
ParSep == <<NL, NL>>

\* str.split('\n\n'): cut at the non-overlapping occurrences, left to right
RECURSIVE SplitFrom(_, _)
SplitFrom(t, acc) ==
    IF t = <<>> THEN <<acc>>
    ELSE IF Len(t) >= 2 /\ t[1] = NL /\ t[2] = NL
         THEN <<acc>> \o SplitFrom(SubSeq(t, 3, Len(t)), <<>>)
         ELSE SplitFrom(Tail(t), Append(acc, Head(t)))

Split(t) == SplitFrom(t, <<>>)

\* sep.join(parts)
RECURSIVE Join(_, _)
Join(sep, parts) ==
    IF parts = <<>> THEN <<>>
    ELSE IF Len(parts) = 1 THEN parts[1]
         ELSE parts[1] \o sep \o Join(sep, Tail(parts))

\* s[-n:] for n > 0
LastChars(t, n) == IF Len(t) <= n THEN t ELSE SubSeq(t, Len(t) - n + 1, Len(t))

\* a text field holding None
NoText == <<Null>>

\* truthiness of an Optional[str]: None and "" are falsy
Truthy(t) == t # NoText /\ t # <<>>

\* ---------------------------------------------------------------------
\* chunk_text
\* ---------------------------------------------------------------------

\* ChunkStep that puts the new paragraph right after the carried overlap,
\* with no blank line between
ChunkStep_NoSeparator(st, paragraph0, chunk_size, overlap) ==
    LET paragraph == Strip(paragraph0)
        cur == st.current_chunk
    IN  IF paragraph = <<>> THEN st
        ELSE IF Len(cur) + Len(paragraph) > chunk_size /\ cur # <<>>
             THEN [chunks |-> Append(st.chunks, Strip(cur)),
                   current_chunk |->
                       IF overlap > 0 /\ Len(cur) > overlap
                       THEN LastChars(cur, overlap) \o paragraph
                       ELSE paragraph]
             ELSE [chunks |-> st.chunks,
                   current_chunk |->
                       IF cur # <<>> THEN cur \o ParSep \o paragraph
                       ELSE paragraph]

\* one iteration of the loop over paragraphs; st = [chunks, current_chunk]
ChunkStep(st, paragraph0, chunk_size, overlap) ==
    LET paragraph == Strip(paragraph0)
        cur == st.current_chunk
    IN  IF paragraph = <<>> THEN st
        ELSE IF Len(cur) + Len(paragraph) > chunk_size /\ cur # <<>>
             THEN [chunks |-> Append(st.chunks, Strip(cur)),
                   current_chunk |->
                       IF overlap > 0 /\ Len(cur) > overlap
                       THEN LastChars(cur, overlap) \o ParSep \o paragraph
                       ELSE paragraph]
             ELSE [chunks |-> st.chunks,
                   current_chunk |->
                       IF cur # <<>> THEN cur \o ParSep \o paragraph
                       ELSE paragraph]

RECURSIVE ChunkLoop(_, _, _, _)
ChunkLoop(st, paragraphs, chunk_size, overlap) ==
    IF paragraphs = <<>> THEN st
    ELSE ChunkLoop(ChunkStep(st, Head(paragraphs), chunk_size, overlap),
                   Tail(paragraphs), chunk_size, overlap)

chunk_text(text, chunk_size, overlap) ==
    IF text = <<>> \/ Strip(text) = <<>> THEN <<>>
    ELSE LET st == ChunkLoop([chunks |-> <<>>, current_chunk |-> <<>>],
                             Split(text), chunk_size, overlap)
         IN  IF Strip(st.current_chunk) # <<>>
             THEN Append(st.chunks, Strip(st.current_chunk))
             ELSE st.chunks

\* ---------------------------------------------------------------------
\* Bounded inputs
\* ---------------------------------------------------------------------

\* most vectors in one provider response
MaxVectors == 2

\* most edits through the API and direct re-runs of process_knowledge_file
\* on one source, together
MaxOps == 2

Sources == {1}

Bots == {1}

Kinds == {"text", "pdf", "docx", "url"}

Statuses == {"pending", "processing", "ready", "error"}

\* inline contents a client may send
Texts == {<<>>, <<SP>>, <<"a">>, <<"b">>}

\* a FileField holding no file
NoFile == [fmt |-> Null, parts |-> <<>>, rows |-> <<>>]

\* uploaded files: the format of the bytes, the page texts (pdf) or
\* paragraph texts (docx), and the joined table rows (docx)
Uploads ==
    {[fmt |-> "bad", parts |-> <<>>, rows |-> <<>>],
     [fmt |-> "pdf", parts |-> <<<<"a">>, <<"b">>>>, rows |-> <<>>],
     [fmt |-> "pdf", parts |-> <<<<SP>>>>, rows |-> <<>>],
     [fmt |-> "pdf", parts |-> <<<<>>>>, rows |-> <<>>],
     [fmt |-> "docx", parts |-> <<<<"b">>, <<SP>>>>, rows |-> <<<<"a">>>>],
     [fmt |-> "docx", parts |-> <<<<SP>>>>, rows |-> <<>>]}

\* attributes a client may send in an edit
EditFiles == {NoFile, [fmt |-> "pdf", parts |-> <<<<"a">>, <<"b">>>>, rows |-> <<>>]}

EditTexts == {<<>>, <<SP>>, <<"b">>}

Vectors == {<<1, 0>>, <<0, 1>>}

RECURSIVE SeqsUpTo(_, _)
SeqsUpTo(S, n) ==
    IF n = 0 THEN {<<>>}
    ELSE LET shorter == SeqsUpTo(S, n - 1)
         IN  shorter \cup {Append(q, x) : q \in {r \in shorter : Len(r) = n - 1}, x \in S}

\* what client.embeddings.create may do: raise, or answer with any number
\* of vectors
Responses ==
    {[ok |-> FALSE, vectors |-> <<>>]}
        \cup {[ok |-> TRUE, vectors |-> v] : v \in SeqsUpTo(Vectors, MaxVectors)}

\* ---------------------------------------------------------------------
\* Text extraction (document_processor.py)
\* ---------------------------------------------------------------------

Extracted(t) == [ok |-> TRUE, text |-> t, error |-> Null]

\* raise DocumentProcessingError(msg)
ExtractionFailed(msg) == [ok |-> FALSE, text |-> NoText, error |-> msg]

RECURSIVE SelectParts(_, _)
SelectParts(parts, keepStripped) ==
    IF parts = <<>> THEN <<>>
    ELSE LET p == Head(parts)
             keep == IF keepStripped THEN Strip(p) # <<>> ELSE p # <<>>
         IN  (IF keep THEN <<p>> ELSE <<>>) \o SelectParts(Tail(parts), keepStripped)

extract_text_from_pdf(file) ==
    IF file.fmt # "pdf" THEN ExtractionFailed("Failed to extract text from PDF")
    ELSE LET text_parts == SelectParts(file.parts, FALSE)
         IN  IF text_parts = <<>>
             THEN ExtractionFailed("Failed to extract text from PDF")
             ELSE Extracted(Join(ParSep, text_parts))

TablesHeader == <<NL, NL, "T", "a", "b", "l", "e", "s", ":", NL>>

extract_text_from_docx(file) ==
    IF file.fmt # "docx" THEN ExtractionFailed("Failed to extract text from DOCX")
    ELSE LET paragraphs == SelectParts(file.parts, TRUE)
             table_texts == SelectParts(file.rows, TRUE)
             all_text == Join(ParSep, paragraphs)
                            \o (IF table_texts # <<>>
                                THEN TablesHeader \o Join(<<NL>>, table_texts)
                                ELSE <<>>)
         IN  IF Strip(all_text) = <<>>
             THEN ExtractionFailed("Failed to extract text from DOCX")
             ELSE Extracted(all_text)

\* called by process_knowledge_file for pdf and docx only
extract_text_from_file(file, file_type) ==
    IF file_type = "pdf" THEN extract_text_from_pdf(file)
    ELSE IF file_type = "docx" THEN extract_text_from_docx(file)
    ELSE ExtractionFailed("Unsupported file type")

\* ---------------------------------------------------------------------
\* Embedding client (embeddings_service.py)
\* ---------------------------------------------------------------------

DefaultChunkSize == 1000

DefaultOverlap == 200

EmbeddingModel == "text-embedding-3-small"

\* knowledge_file.embeddings not set
NoIndex == [chunks |-> <<>>, vectors |-> <<>>, model |-> Null,
            chunk_size |-> 0, overlap |-> 0]

\* the vectors of response.data, or EmbeddingsError
generate_embeddings_openai(texts, response) ==
    IF response.ok THEN [ok |-> TRUE, vectors |-> response.vectors]
    ELSE [ok |-> FALSE, vectors |-> <<>>]

generate_embeddings(texts, response) == generate_embeddings_openai(texts, response)

\* ---------------------------------------------------------------------
\* KnowledgeBaseFile and its ingestion
\* ---------------------------------------------------------------------

\* models.py declares no `embeddings` field on KnowledgeBaseFile: the index
\* is an attribute of the instance being processed, save() does not write
\* it, and a query on embeddings__isnull raises FieldError
EmbeddingsFieldDeclared == FALSE

\* the name every source is given
FileName == <<"n">>

\* the instance returned by super().create(validated_data)
NewFile(bot, file_type, file, content) ==
    [bot |-> bot, name |-> FileName, file_type |-> file_type, file |-> file,
     content |-> content,
     status |-> "pending", processing_error |-> Null, embeddings |-> NoIndex]

\* request attributes that were not sent
AbsentKind == "absent"

AbsentFile == [fmt |-> "absent", parts |-> <<>>, rows |-> <<>>]

AbsentText == <<"absent">>

\* KnowledgeBaseFileSerializer.validate: TRUE when attrs are accepted;
\* attrs.get gives None for an attribute that was not sent
validate(file_type, file, content) ==
    /\ ~(file_type \in {"pdf", "docx"} /\ file \in {AbsentFile, NoFile})
    /\ ~(file_type = "text" /\ (content = AbsentText \/ ~Truthy(content)))

\* MarkError that records the message but leaves the status
MarkError_KeepsStatus(f, error_msg) == [f EXCEPT !.processing_error = error_msg]

\* except DocumentProcessingError / except Exception in process_knowledge_file
MarkError(f, error_msg) ==
    [f EXCEPT !.status = "error", !.processing_error = error_msg]

\* the text branch of process_knowledge_file up to its save()
TextReady(f) == [f EXCEPT !.status = "ready"]

\* the pdf/docx branch of process_knowledge_file up to its save()
FileReady(f, extracted_text) ==
    [f EXCEPT !.content = extracted_text, !.status = "ready",
              !.processing_error = Null]

\* StoreIndex that adds the new chunks and vectors to the ones already held
StoreIndex_Appends(f, chunks, embeddings) ==
    [f EXCEPT !.embeddings =
        [chunks |-> f.embeddings.chunks \o chunks,
         vectors |-> f.embeddings.vectors \o embeddings,
         model |-> EmbeddingModel,
         chunk_size |-> DefaultChunkSize, overlap |-> DefaultOverlap]]

\* knowledge_file.embeddings = {...}; knowledge_file.save()
StoreIndex(f, chunks, embeddings) ==
    [f EXCEPT !.embeddings =
        [chunks |-> chunks, vectors |-> embeddings, model |-> EmbeddingModel,
         chunk_size |-> DefaultChunkSize, overlap |-> DefaultOverlap]]

\* the try block that asks for the vectors again after a failed call
EmbedChunks_Retries(chunks, response) ==
    LET e == generate_embeddings(chunks, response)
    IN  [e |-> e, provider_calls |-> IF e.ok THEN 1 ELSE 2]

\* try: embeddings = generate_embeddings(chunks); except EmbeddingsError:
\* return False.  One call for all chunks; provider_calls counts the calls
EmbedChunks(chunks, response) ==
    [e |-> generate_embeddings(chunks, response), provider_calls |-> 1]

\* process_knowledge_file_embeddings that stores the chunks before it asks
\* for the vectors
process_knowledge_file_embeddings_StoresFirst(f, response) ==
    IF ~Truthy(f.content) THEN [file |-> f, calls |-> {}, provider_calls |-> 0]
    ELSE LET chunks == chunk_text(f.content, DefaultChunkSize, DefaultOverlap)
         IN  IF chunks = <<>>
             THEN [file |-> f, calls |-> {"chunk", "no_chunks"}, provider_calls |-> 0]
             ELSE LET t == EmbedChunks(chunks, response)
                  IN  IF ~t.e.ok
                      THEN [file |-> StoreIndex(f, chunks, <<>>),
                            calls |-> {"chunk", "embed", "embed_raised"},
                            provider_calls |-> t.provider_calls]
                      ELSE [file |-> StoreIndex(f, chunks, t.e.vectors),
                            calls |-> {"chunk", "embed", "stored"},
                            provider_calls |-> t.provider_calls]

\* process_knowledge_file_embeddings with the default chunk_size and
\* overlap; gives the instance afterwards and the calls that were made
process_knowledge_file_embeddings(f, response) ==
    IF ~Truthy(f.content) THEN [file |-> f, calls |-> {}, provider_calls |-> 0]
    ELSE LET chunks == chunk_text(f.content, DefaultChunkSize, DefaultOverlap)
         IN  IF chunks = <<>>
             THEN [file |-> f, calls |-> {"chunk", "no_chunks"}, provider_calls |-> 0]
             ELSE LET t == EmbedChunks(chunks, response)
                  IN  IF ~t.e.ok
                      THEN [file |-> f, calls |-> {"chunk", "embed", "embed_raised"},
                            provider_calls |-> t.provider_calls]
                      ELSE [file |-> StoreIndex(f, chunks, t.e.vectors),
                            calls |-> {"chunk", "embed", "stored"},
                            provider_calls |-> t.provider_calls]

\* process_knowledge_file up to the call of process_knowledge_file_embeddings
\* or to its return; stat_ok: Path(file_path).stat() does not raise
\* next = "emb": the embeddings call follows; result: the returned success
process_knowledge_file(f, stat_ok) ==
    IF f.file_type = "text"
    THEN IF ~Truthy(f.content)
         THEN [file |-> f, calls |-> {}, next |-> "idle", result |-> "fail"]
         ELSE [file |-> TextReady(f), calls |-> {}, next |-> "emb", result |-> "ok"]
    ELSE IF f.file_type = "url"
    THEN [file |-> f, calls |-> {}, next |-> "idle", result |-> "fail"]
    ELSE IF f.file = NoFile
    THEN [file |-> f, calls |-> {}, next |-> "idle", result |-> "fail"]
    ELSE LET r == extract_text_from_file(f.file, f.file_type)
         IN  IF ~r.ok
             THEN [file |-> MarkError(f, r.error),
                   calls |-> {"extract", "extract_failed"},
                   next |-> "idle", result |-> "fail"]
             ELSE IF ~stat_ok
             THEN [file |-> MarkError([f EXCEPT !.content = r.text],
                                      "Unexpected error"),
                   calls |-> {"extract", "unexpected"},
                   next |-> "idle", result |-> "fail"]
             ELSE [file |-> FileReady(f, r.text), calls |-> {"extract"},
                   next |-> "emb", result |-> "ok"]

\* StatusSetByCreate that marks every processed kind ready at once
StatusSetByCreate_AllReady(f) ==
    IF f.file_type \in {"text", "pdf", "docx"} THEN "ready" ELSE f.status

\* the status KnowledgeBaseFileSerializer.create saves before it calls
\* process_knowledge_file
StatusSetByCreate(f) ==
    IF f.file_type = "text" THEN "ready"
    ELSE IF f.file_type \in {"pdf", "docx"} THEN "processing"
    ELSE f.status

\* KnowledgeBaseFileSerializer.create calls process_knowledge_file
CreateProcesses(f) == f.file_type \in {"text", "pdf", "docx"}

\* ---------------------------------------------------------------------
\* Similarity and search (embeddings_service.py)
\* ---------------------------------------------------------------------

RECURSIVE Dot(_, _)
Dot(a, b) == IF a = <<>> THEN 0 ELSE Head(a) * Head(b) + Dot(Tail(a), Tail(b))

Sign(x) == IF x > 0 THEN 1 ELSE IF x < 0 THEN -1 ELSE 0

\* cosine_similarity without the test of the norms: the division by a zero
\* norm gives no number
cosine_similarity_Unguarded(vec1, vec2) ==
    IF Len(vec1) # Len(vec2) THEN [raised |-> TRUE, n |-> 0, d |-> 1]
    ELSE LET dot_product == Dot(vec1, vec2)
             norm1sq == Dot(vec1, vec1)
             norm2sq == Dot(vec2, vec2)
         IN  IF norm1sq = 0 \/ norm2sq = 0 THEN [raised |-> TRUE, n |-> 0, d |-> 1]
             ELSE [raised |-> FALSE,
                   n |-> Sign(dot_product) * dot_product * dot_product,
                   d |-> norm1sq * norm2sq]

\* A similarity is kept exactly, as the fraction n/d (d > 0) that equals
\* sign(s) * s^2 and so orders as s does; raised: np.dot rejected the shapes
cosine_similarity(vec1, vec2) ==
    IF Len(vec1) # Len(vec2) THEN [raised |-> TRUE, n |-> 0, d |-> 1]
    ELSE LET dot_product == Dot(vec1, vec2)
             norm1sq == Dot(vec1, vec1)
             norm2sq == Dot(vec2, vec2)
         IN  IF norm1sq = 0 \/ norm2sq = 0 THEN [raised |-> FALSE, n |-> 0, d |-> 1]
             ELSE [raised |-> FALSE,
                   n |-> Sign(dot_product) * dot_product * dot_product,
                   d |-> norm1sq * norm2sq]

\* a threshold num/den (den > 0) in the same form
Threshold(num, den) == [raised |-> FALSE, n |-> Sign(num) * num * num, d |-> den * den]

\* similarity a >= similarity b
SimGE(a, b) == a.n * b.d >= b.n * a.d

Min(a, b) == IF a < b THEN a ELSE b

\* FileMatches that keeps only the chunks strictly above min_similarity
RECURSIVE FileMatches_Strict(_, _, _, _, _)
FileMatches_Strict(id, index, idx, query_embedding, min_similarity) ==
    IF idx >= Min(Len(index.chunks), Len(index.vectors)) THEN <<>>
    ELSE LET similarity == cosine_similarity(query_embedding, index.vectors[idx + 1])
             rest == FileMatches_Strict(id, index, idx + 1, query_embedding, min_similarity)
         IN  IF similarity.raised \/ ~SimGE(min_similarity, similarity)
             THEN <<[file_id |-> id, chunk_index |-> idx,
                     chunk_text |-> index.chunks[idx + 1],
                     similarity |-> similarity]>> \o rest
             ELSE rest

\* the matches of one file: the loop over enumerate(zip(chunks, vectors))
RECURSIVE FileMatches(_, _, _, _, _)
FileMatches(id, index, idx, query_embedding, min_similarity) ==
    IF idx >= Min(Len(index.chunks), Len(index.vectors)) THEN <<>>
    ELSE LET similarity == cosine_similarity(query_embedding, index.vectors[idx + 1])
             rest == FileMatches(id, index, idx + 1, query_embedding, min_similarity)
         IN  IF similarity.raised \/ SimGE(similarity, min_similarity)
             THEN <<[file_id |-> id, chunk_index |-> idx,
                     chunk_text |-> index.chunks[idx + 1],
                     similarity |-> similarity]>> \o rest
             ELSE rest

\* list.sort(key=similarity, reverse=True): stable, descending
RECURSIVE InsertDesc(_, _)
InsertDesc(sorted, x) ==
    IF sorted = <<>> THEN <<x>>
    ELSE IF SimGE(Head(sorted).similarity, x.similarity)
         THEN <<Head(sorted)>> \o InsertDesc(Tail(sorted), x)
         ELSE <<x>> \o sorted

RECURSIVE SortDesc(_)
SortDesc(results) ==
    IF results = <<>> THEN <<>>
    ELSE InsertDesc(SortDesc(SubSeq(results, 1, Len(results) - 1)),
                    results[Len(results)])

\* results[:top_k]
Slice(results, top_k) ==
    LET stop == IF top_k >= 0 THEN Min(top_k, Len(results))
                ELSE IF Len(results) + top_k > 0 THEN Len(results) + top_k ELSE 0
    IN  SubSeq(results, 1, stop)

RECURSIVE AllMatches(_, _, _, _)
AllMatches(ids, indexOf, query_embedding, min_similarity) ==
    IF ids = <<>> THEN <<>>
    ELSE FileMatches(Head(ids), indexOf[Head(ids)], 0, query_embedding, min_similarity)
            \o AllMatches(Tail(ids), indexOf, query_embedding, min_similarity)

\* semantic_search from the loop over the queried files to the slice;
\* ids: the queried files in the order read, indexOf[id]: file.embeddings;
\* raised: an exception left the loop
SearchLoop(ids, indexOf, query_embedding, top_k, min_similarity) ==
    LET results == AllMatches(ids, indexOf, query_embedding, min_similarity)
    IN  IF \E i \in 1..Len(results) : results[i].similarity.raised
        THEN [raised |-> TRUE, results |-> <<>>]
        ELSE [raised |-> FALSE, results |-> Slice(SortDesc(results), top_k)]

\* an except clause that lets the exception through to the caller
Except_Propagates(attempt) == attempt

\* except Exception: return []
Except(attempt) ==
    [raised |-> FALSE,
     results |-> IF attempt.raised THEN <<>> ELSE attempt.results]

\* the same, seen by the caller of semantic_search
SearchFiles(ids, indexOf, query_embedding, top_k, min_similarity) ==
    Except(SearchLoop(ids, indexOf, query_embedding, top_k, min_similarity)).results

\* the filter of the query: bot_id, status='ready', embeddings__isnull=False,
\* with no test of the status
Queried_AnyStatus(f, bot_id) ==
    /\ f.bot = bot_id
    /\ f.embeddings # NoIndex

\* the filter of the query: bot_id, status='ready', embeddings__isnull=False
Queried(f, bot_id) ==
    /\ f.bot = bot_id
    /\ f.status = "ready"
    /\ f.embeddings # NoIndex

\* the ids among 1..n that are in rows, newest first (Meta.ordering)
RECURSIVE NewestFirst(_, _)
NewestFirst(n, rows) ==
    IF n = 0 THEN <<>>
    ELSE (IF n \in rows THEN <<n>> ELSE <<>>) \o NewestFirst(n - 1, rows)

\* the try block of semantic_search on a table whose rows hold the
\* embeddings column the query filters on; rows[id]: the row with that id;
\* response: what the provider does with the query
semantic_search_try(rows, response, bot_id, top_k, min_similarity) ==
    LET e == generate_embeddings(<<"query">>, response)
        ids == NewestFirst(Len(rows),
                           {id \in 1..Len(rows) : Queried(rows[id], bot_id)})
    IN  IF ~e.ok \/ e.vectors = <<>> THEN [raised |-> TRUE, results |-> <<>>]
        ELSE SearchLoop(ids, [id \in 1..Len(rows) |-> rows[id].embeddings],
                        e.vectors[1], top_k, min_similarity)

\* semantic_search on such a table: caught: the try block raised
semantic_search_in(rows, response, bot_id, top_k, min_similarity) ==
    LET attempt == semantic_search_try(rows, response, bot_id, top_k, min_similarity)
        outcome == Except(attempt)
    IN  [caught |-> attempt.raised, raised |-> outcome.raised,
         results |-> outcome.results]

VARIABLES
    files,   \* files[s]: the KnowledgeBaseFile with id s
    pc,      \* pc[s]: "absent", "created", "pkf", "emb" or "idle"
    run,     \* run[s]: the latest ingestion run of s
    count,   \* count[s]: the edits and direct re-runs of s so far
    table,   \* SpecSearch: the rows of the knowledge base table, by id
    call     \* the function-level specifications: the call under way

vars == <<files, pc, run, count, table, call>>

\* the variables of the ingestion life cycle
lifecycle == <<files, pc, run, count>>

\* no call was made
NoCall == [fn |-> "none"]

\* what a run of process_knowledge_file reads of the source: the kind, the
\* uploaded file and, for a text source, the inline content
RunInput(f) ==
    [file_type |-> f.file_type, file |-> f.file,
     content |-> IF f.file_type = "text" THEN f.content ELSE NoText]

\* the provider was not asked in the run
NotAsked == [asked |-> FALSE, ok |-> FALSE, vectors |-> <<>>]

\* run[s]: where the run started (origin), the calls it made, what it
\* returned (result), whether the source held an index when it started,
\* whether it started on an instance read back from the database
\* (reloaded), what it read (input) and what the provider answered
\* (response); and of the run before it: whether it read the same input,
\* what it returned, what the provider answered (kept until this run
\* returns) and whether the provider answered the same
NoRun == [origin |-> "none", calls |-> {}, result |-> "none",
          indexed_before |-> FALSE, reloaded |-> FALSE,
          input |-> RunInput(NewFile(1, "text", NoFile, NoText)),
          response |-> NotAsked,
          same_input |-> FALSE, prev_result |-> "none",
          prev_response |-> NotAsked, same_response |-> FALSE,
          provider_calls |-> 0]

Init ==
    /\ files = [s \in Sources |-> NewFile(1, "text", NoFile, NoText)]
    /\ pc = [s \in Sources |-> "absent"]
    /\ run = [s \in Sources |-> NoRun]
    /\ count = [s \in Sources |-> [edits |-> 0, reruns |-> 0]]
    /\ table = <<>>
    /\ call = NoCall

\* the id the database gives to the next row
NextId == Cardinality({s \in Sources : pc[s] # "absent"}) + 1

\* POST knowledge-files/: validate, then super().create (status pending)
Create(s, bot, file_type, file, content) ==
    /\ pc[s] = "absent"
    /\ s = NextId
    /\ validate(file_type, file, content)
    /\ files' = [files EXCEPT ![s] =
            NewFile(bot,
                    IF file_type = AbsentKind THEN "text" ELSE file_type,
                    IF file = AbsentFile THEN NoFile ELSE file,
                    IF content = AbsentText THEN NoText ELSE content)]
    /\ pc' = [pc EXCEPT ![s] = "created"]
    /\ run' = [run EXCEPT ![s] =
            [NoRun EXCEPT !.origin = "create", !.input = RunInput(files'[s])]]
    /\ UNCHANGED <<count, table, call>>

\* KnowledgeBaseFileSerializer.create after super().create: set the status
\* and call process_knowledge_file, or return at once
CreateDispatch(s) ==
    /\ pc[s] = "created"
    /\ files' = [files EXCEPT ![s].status = StatusSetByCreate(files[s])]
    /\ pc' = [pc EXCEPT ![s] = IF CreateProcesses(files[s]) THEN "pkf" ELSE "idle"]
    /\ run' = [run EXCEPT ![s].result =
                    IF CreateProcesses(files[s]) THEN "none" ELSE "skipped"]
    /\ UNCHANGED <<count, table, call>>

\* process_knowledge_file up to its return or to the embeddings call
ProcessKnowledgeFile(s) ==
    /\ pc[s] = "pkf"
    /\ \E stat_ok \in BOOLEAN :
          LET r == process_knowledge_file(files[s], stat_ok)
          IN  /\ files' = [files EXCEPT ![s] = r.file]
              /\ pc' = [pc EXCEPT ![s] = r.next]
              /\ run' = [run EXCEPT
                    ![s].calls = @ \cup r.calls,
                    ![s].result = r.result,
                    ![s].same_response =
                        IF r.next = "idle" THEN run[s].prev_response = NotAsked
                        ELSE @,
                    ![s].prev_response = IF r.next = "idle" THEN NotAsked ELSE @]
    /\ UNCHANGED <<count, table, call>>

\* process_knowledge_file_embeddings, then process_knowledge_file returns
ProcessEmbeddings(s) ==
    /\ pc[s] = "emb"
    /\ \E response \in Responses :
          LET r == process_knowledge_file_embeddings(files[s], response)
              given == IF "embed" \in r.calls
                       THEN [asked |-> TRUE, ok |-> response.ok,
                             vectors |-> response.vectors]
                       ELSE NotAsked
          IN  /\ files' = [files EXCEPT ![s] = r.file]
              /\ run' = [run EXCEPT
                    ![s].calls = @ \cup r.calls,
                    ![s].response = given,
                    ![s].same_response = (given = run[s].prev_response),
                    ![s].provider_calls = @ + r.provider_calls,
                    ![s].prev_response = NotAsked]
    /\ pc' = [pc EXCEPT ![s] = "idle"]
    /\ UNCHANGED <<count, table, call>>

\* PUT/PATCH knowledge-files/<id>/: ModelSerializer.update sets the sent
\* attributes and saves; nothing is processed
Update(s, file_type, file, content) ==
    /\ pc[s] = "idle"
    /\ count[s].edits + count[s].reruns < MaxOps
    /\ validate(file_type, file, content)
    /\ files' = [files EXCEPT ![s] =
            [@ EXCEPT !.file_type = IF file_type = AbsentKind THEN @ ELSE file_type,
                      !.file = IF file = AbsentFile THEN @ ELSE file,
                      !.content = IF content = AbsentText THEN @ ELSE content]]
    /\ files'[s] # files[s]
    /\ count' = [count EXCEPT ![s].edits = @ + 1]
    /\ UNCHANGED <<pc, run, table, call>>

\* a caller runs process_knowledge_file on an existing source again, on the
\* instance it holds or (reload) on one read back from the database
Reprocess(s, reload) ==
    /\ pc[s] = "idle"
    /\ count[s].edits + count[s].reruns < MaxOps
    /\ LET f == IF reload /\ ~EmbeddingsFieldDeclared
                THEN [files[s] EXCEPT !.embeddings = NoIndex]
                ELSE files[s]
       IN  /\ files' = [files EXCEPT ![s] = f]
           /\ run' = [run EXCEPT ![s] =
                    [origin |-> "direct", calls |-> {}, result |-> "none",
                     indexed_before |-> f.embeddings # NoIndex,
                     reloaded |-> reload,
                     input |-> RunInput(f), response |-> NotAsked,
                     same_input |-> (RunInput(f) = run[s].input),
                     prev_result |-> run[s].result,
                     prev_response |-> run[s].response,
                     same_response |-> FALSE,
                     provider_calls |-> 0]]
    /\ pc' = [pc EXCEPT ![s] = "pkf"]
    /\ count' = [count EXCEPT ![s].reruns = @ + 1]
    /\ UNCHANGED <<table, call>>

\* semantic_search in the current state; response: what the provider does
\* with the query.  The filter on embeddings__isnull raises FieldError when
\* the model declares no such field, and the except clause returns []
semantic_search(response, bot_id, top_k, min_similarity) ==
    LET e == generate_embeddings(<<"query">>, response)
        Found(s) == pc[s] # "absent" /\ Queried(files[s], bot_id)
    IN  IF ~e.ok \/ e.vectors = <<>> THEN <<>>
        ELSE IF ~EmbeddingsFieldDeclared THEN <<>>
        ELSE SearchFiles(NewestFirst(Cardinality(Sources), {s \in Sources : Found(s)}),
                         [s \in Sources |-> files[s].embeddings],
                         e.vectors[1], top_k, min_similarity)

Next ==
    \/ \E s \in Sources, bot \in Bots, file_type \in Kinds \cup {AbsentKind},
          file \in Uploads \cup {AbsentFile}, content \in Texts \cup {AbsentText} :
            Create(s, bot, file_type, file, content)
    \/ \E s \in Sources : CreateDispatch(s)
    \/ \E s \in Sources : ProcessKnowledgeFile(s)
    \/ \E s \in Sources : ProcessEmbeddings(s)
    \/ \E s \in Sources, file_type \in Kinds \cup {AbsentKind},
          file \in EditFiles \cup {AbsentFile},
          content \in EditTexts \cup {AbsentText} :
            Update(s, file_type, file, content)
    \/ \E s \in Sources, reload \in BOOLEAN : Reprocess(s, reload)

Spec == Init /\ [][Next]_vars

\* ---------------------------------------------------------------------
\* SpecSearch: semantic_search over a table whose rows hold the embeddings
\* column that the query of semantic_search filters on
\* ---------------------------------------------------------------------

\* most rows in the table
MaxRows == 2

\* the vector the provider gives for the query
QueryVector == <<1, 0>>

\* what the provider does with the query: raise, no vector, one vector
SearchResponses ==
    {[ok |-> FALSE, vectors |-> <<>>],
     [ok |-> TRUE, vectors |-> <<>>],
     [ok |-> TRUE, vectors |-> <<QueryVector>>]}

\* the index process_knowledge_file_embeddings stores for these chunks and
\* vectors
IndexOf(chunks, vectors) ==
    StoreIndex(NewFile(1, "text", NoFile, NoText), chunks, vectors).embeddings

\* a row of the table
Row(bot, status, index) ==
    [NewFile(bot, "text", NoFile, <<"a">>) EXCEPT
        !.status = status, !.embeddings = index]

\* rows the table may hold; the similarities to QueryVector are
\* 1, then 3/5 and 4/5, then 4/5, then 1 (a longer chunk), then 0 (zero
\* vector); one index holds a
\* vector of another dimension; an error row keeps the index of an
\* earlier run
StoredRows ==
    {Row(1, "ready", IndexOf(<<<<"a">>>>, <<<<1, 0>>>>)),
     Row(1, "ready", IndexOf(<<<<"a">>, <<"b">>>>, <<<<3, 4>>, <<4, 3>>>>)),
     Row(1, "ready", IndexOf(<<<<"b">>>>, <<<<4, 3>>>>)),
     Row(1, "ready", IndexOf(<<<<"c", "d", "e">>>>, <<<<1, 0>>>>)),
     Row(1, "ready", IndexOf(<<<<"a">>>>, <<<<0, 0>>>>)),
     Row(1, "ready", IndexOf(<<<<"a">>>>, <<<<1>>>>)),
     Row(1, "ready", NoIndex),
     Row(2, "ready", IndexOf(<<<<"a">>>>, <<<<1, 0>>>>)),
     Row(1, "error", IndexOf(<<<<"a">>, <<"b">>>>, <<<<3, 4>>, <<4, 3>>>>)),
     Row(1, "processing", NoIndex),
     Row(1, "pending", NoIndex)}

SearchBots == {1, 2}

\* top_k as the caller gives it (semantic_search_view passes any integer)
SearchTopKs == {-1, 0, 1, 2, 3}

\* min_similarity: -1, 0, 3/5, 7/10
SearchMinSims ==
    {Threshold(-1, 1), Threshold(0, 1), Threshold(3, 5), Threshold(7, 10)}

\* a row is written to the table with the next id
Insert(row) ==
    /\ Len(table) < MaxRows
    /\ table' = Append(table, row)
    /\ call' = NoCall
    /\ UNCHANGED lifecycle

\* semantic_search(query, bot_id, top_k, min_similarity) runs and returns
Search(response, bot_id, top_k, min_similarity) ==
    /\ call = NoCall
    /\ LET r == semantic_search_in(table, response, bot_id, top_k, min_similarity)
       IN  call' = [fn |-> "semantic_search", response |-> response,
                    bot_id |-> bot_id, top_k |-> top_k,
                    min_similarity |-> min_similarity,
                    caught |-> r.caught, raised |-> r.raised, ret |-> r.results]
    /\ UNCHANGED <<lifecycle, table>>

NextSearch ==
    \/ \E row \in StoredRows : Insert(row)
    \/ \E response \in SearchResponses, bot_id \in SearchBots,
          top_k \in SearchTopKs, min_similarity \in SearchMinSims :
            Search(response, bot_id, top_k, min_similarity)

SpecSearch == Init /\ [][NextSearch]_vars

\* ---------------------------------------------------------------------
\* SpecRag: build_rag_context over a table of stored rows
\* ---------------------------------------------------------------------

\* "Relevant information from knowledge base:\n"
Header ==
    <<"R", "e", "l", "e", "v", "a", "n", "t", " ", "i", "n", "f", "o", "r",
      "m", "a", "t", "i", "o", "n", " ", "f", "r", "o", "m", " ", "k", "n",
      "o", "w", "l", "e", "d", "g", "e", " ", "b", "a", "s", "e", ":", NL>>

\* f"\n[Source: {file_name}]\n{chunk}\n"
SourceBlock(file_name, chunk) ==
    <<NL, "[", "S", "o", "u", "r", "c", "e", ":", SP>> \o file_name
        \o <<"]", NL>> \o chunk \o <<NL>>

\* the loop over the results, which appends blocks and skips a block that
\* does not fit instead of stopping at it
RECURSIVE RagLoop_SkipsAndGoesOn(_, _, _, _, _)
RagLoop_SkipsAndGoesOn(results, rows, max_context, context_parts, current_length) ==
    IF results = <<>> THEN context_parts
    ELSE LET result == Head(results)
             source == SourceBlock(rows[result.file_id].name, result.chunk_text)
         IN  IF current_length + Len(source) > max_context
             THEN RagLoop_SkipsAndGoesOn(Tail(results), rows, max_context,
                                         context_parts, current_length)
             ELSE RagLoop_SkipsAndGoesOn(Tail(results), rows, max_context,
                                         Append(context_parts, source),
                                         current_length + Len(source))

\* the loop over the results: result['file_name'] is the name of the row
\* the match came from; break at the first block that does not fit
RECURSIVE RagLoop(_, _, _, _, _)
RagLoop(results, rows, max_context, context_parts, current_length) ==
    IF results = <<>> THEN context_parts
    ELSE LET result == Head(results)
             source == SourceBlock(rows[result.file_id].name, result.chunk_text)
         IN  IF current_length + Len(source) > max_context THEN context_parts
             ELSE RagLoop(Tail(results), rows, max_context,
                          Append(context_parts, source),
                          current_length + Len(source))

\* top_k=5 in the call of semantic_search
RagTopK == 5

\* min_similarity=0.7, the default of semantic_search
DefaultMinSimilarity == Threshold(7, 10)

\* the results build_rag_context gets from semantic_search
RagResults(rows, response, bot_id) ==
    semantic_search_in(rows, response, bot_id, RagTopK, DefaultMinSimilarity).results

\* build_rag_context(query, bot_id, max_context) on the table rows
build_rag_context(rows, response, bot_id, max_context) ==
    LET results == RagResults(rows, response, bot_id)
    IN  IF results = <<>> THEN <<>>
        ELSE Join(<<NL>>, RagLoop(results, rows, max_context, <<Header>>, Len(Header)))

\* max_context: below the header, the header, the header and a block of a
\* one-character chunk less one and exactly, the same for a block of a
\* three-character chunk, both blocks, and the default
RagContexts == {0, 42, 56, 57, 58, 59, 74, 2000}

\* build_rag_context(query, bot_id, max_context) runs and returns
BuildRagContext(response, bot_id, max_context) ==
    /\ call = NoCall
    /\ call' = [fn |-> "build_rag_context", response |-> response,
                bot_id |-> bot_id, max_context |-> max_context,
                results |-> RagResults(table, response, bot_id),
                ret |-> build_rag_context(table, response, bot_id, max_context)]
    /\ UNCHANGED <<lifecycle, table>>

NextRag ==
    \/ \E row \in StoredRows : Insert(row)
    \/ \E response \in SearchResponses, bot_id \in SearchBots,
          max_context \in RagContexts :
            BuildRagContext(response, bot_id, max_context)

SpecRag == Init /\ [][NextRag]_vars

\* ---------------------------------------------------------------------
\* SpecCosine: cosine_similarity on bounded vectors
\* ---------------------------------------------------------------------

\* most components of an argument vector
MaxDim == 2

CosineVectors == SeqsUpTo({-1, 0, 1}, MaxDim)

\* cosine_similarity(vec1, vec2) is called and returns or raises
Cosine(vec1, vec2) ==
    /\ call = NoCall
    /\ call' = [fn |-> "cosine_similarity", vec1 |-> vec1, vec2 |-> vec2,
                ret |-> cosine_similarity(vec1, vec2)]
    /\ UNCHANGED <<lifecycle, table>>

NextCosine ==
    \E vec1 \in CosineVectors, vec2 \in CosineVectors : Cosine(vec1, vec2)

SpecCosine == Init /\ [][NextCosine]_vars

\* ---------------------------------------------------------------------
\* SpecEmbed: generate_embeddings on bounded texts and provider responses
\* ---------------------------------------------------------------------

\* the input texts of a call: up to MaxVectors of these
EmbedPieces == {<<"a">>, <<"b">>, <<"b", "c">>}

\* generate_embeddings(texts) is called and returns or raises; response:
\* what client.embeddings.create does
Embed(texts, response) ==
    /\ call = NoCall
    /\ call' = [fn |-> "generate_embeddings", texts |-> texts,
                response |-> response,
                ret |-> generate_embeddings(texts, response)]
    /\ UNCHANGED <<lifecycle, table>>

NextEmbed ==
    \E texts \in SeqsUpTo(EmbedPieces, MaxVectors), response \in Responses :
        Embed(texts, response)

SpecEmbed == Init /\ [][NextEmbed]_vars

\* ---------------------------------------------------------------------
\* SpecChunk: chunk_text, one paragraph of its loop at a time
\* ---------------------------------------------------------------------

\* most pieces between blank lines in a text
MaxParagraphs == 3

\* the pieces: plain paragraphs of 1, 2 and 3 characters, a blank piece,
\* a paragraph with a line break inside, and one with a line break in front
Pieces ==
    {<<"a">>, <<"b", "c">>, <<"d", "e", "f">>, <<SP>>,
     <<"g", NL, "h">>, <<NL, "i">>}

ChunkTexts == {Join(ParSep, pieces) : pieces \in SeqsUpTo(Pieces, MaxParagraphs)}

ChunkSizes == {1, 4, 6}

Overlaps == {0, 1, 3, 7}

\* chunk_text(text, chunk_size, overlap) is called: the early return, or
\* the split into paragraphs
ChunkCall(text, chunk_size, overlap) ==
    /\ call = NoCall
    /\ call' = [fn |-> "chunk_text", text |-> text,
                chunk_size |-> chunk_size, overlap |-> overlap,
                at |-> IF text = <<>> \/ Strip(text) = <<>> THEN "done" ELSE "loop",
                paragraphs |-> IF text = <<>> \/ Strip(text) = <<>> THEN <<>>
                               ELSE Split(text),
                st |-> [chunks |-> <<>>, current_chunk |-> <<>>],
                ret |-> <<>>]
    /\ UNCHANGED <<lifecycle, table>>

\* one iteration of the loop over paragraphs
ChunkParagraph ==
    /\ call # NoCall /\ call.at = "loop" /\ call.paragraphs # <<>>
    /\ call' = [call EXCEPT
            !.st = ChunkStep(@, Head(call.paragraphs), call.chunk_size, call.overlap),
            !.paragraphs = Tail(@)]
    /\ UNCHANGED <<lifecycle, table>>

\* after the loop: the final chunk, and return
ChunkReturn ==
    /\ call # NoCall /\ call.at = "loop" /\ call.paragraphs = <<>>
    /\ call' = [call EXCEPT
            !.at = "done",
            !.ret = IF Strip(call.st.current_chunk) # <<>>
                    THEN Append(call.st.chunks, Strip(call.st.current_chunk))
                    ELSE call.st.chunks]
    /\ UNCHANGED <<lifecycle, table>>

NextChunk ==
    \/ /\ call = NoCall
       /\ \E text \in ChunkTexts, chunk_size \in ChunkSizes, overlap \in Overlaps :
            ChunkCall(text, chunk_size, overlap)
    \/ ChunkParagraph
    \/ ChunkReturn

SpecChunk == Init /\ [][NextChunk]_vars

\* ---------------------------------------------------------------------
\* Properties
\* ---------------------------------------------------------------------

\* the source has a stored index
Indexed(s) == pc[s] # "absent" /\ files[s].embeddings # NoIndex

\* the required input of the kind is missing
MissingInput(f) ==
    \/ f.file_type = "text" /\ ~Truthy(f.content)
    \/ f.file_type \in {"pdf", "docx"} /\ f.file = NoFile

\* the submission run of s has returned and s was not touched since
Submitted(s) ==
    /\ pc[s] = "idle"
    /\ run[s].origin = "create"
    /\ count[s] = [edits |-> 0, reruns |-> 0]

StatusChange(s) == <<files[s].status, files'[s].status>>

\* C1: whenever the stored index of a source is non-null, it holds as many
\* chunks as vectors, whatever the embedding provider answered.
C1_IndexAligned ==
    \A s \in Sources :
        Indexed(s) =>
            Len(files[s].embeddings.chunks) = Len(files[s].embeddings.vectors)

\* the last run of s was on a never-indexed source and its embedding step
\* failed softly: the provider raised, or chunking gave no chunks
SoftFailed(s) ==
    /\ pc[s] = "idle"
    /\ run[s].origin # "none"
    /\ ~run[s].indexed_before
    /\ run[s].calls \cap {"embed_raised", "no_chunks"} # {}

\* C2: a never-indexed text source with non-empty content whose embedding
\* call raises (or whose chunking gives no chunks) ends ready with no
\* index, and no search of its bot returns a match from it.
C2_SoftFailure ==
    \A s \in Sources :
        (SoftFailed(s) /\ files[s].file_type = "text" /\ Truthy(files[s].content)) =>
            /\ files[s].status = "ready"
            /\ files[s].embeddings = NoIndex
            /\ \A response \in Responses, top_k \in SearchTopKs,
                  min_similarity \in SearchMinSims :
                    LET found == semantic_search(response, files[s].bot,
                                                 top_k, min_similarity)
                    IN  \A i \in 1..Len(found) : found[i].file_id # s

C2_Witness ==
    \E s \in Sources :
        /\ SoftFailed(s) /\ files[s].file_type = "text" /\ Truthy(files[s].content)
        /\ "embed_raised" \in run[s].calls
        /\ files[s].status = "ready"

\* C3: submitting a url source leaves it at once with status error and a
\* non-empty processing_error, and no extraction is attempted.
C3_UrlRejected ==
    \A s \in Sources :
        (Submitted(s) /\ files[s].file_type = "url") =>
            /\ files[s].status = "error"
            /\ files[s].processing_error # Null
            /\ "extract" \notin run[s].calls

\* C4 as stated: for every kind the status moves only along
\* pending -> processing -> ready or pending -> processing -> error.
C4_Lifecycle ==
    [][\A s \in Sources :
        files'[s].status # files[s].status =>
            StatusChange(s) \in {<<"pending", "processing">>,
                                 <<"processing", "ready">>,
                                 <<"processing", "error">>}]_vars

\* C4 amended: in the run started by a submission, a source of a kind
\* other than text moves only along pending -> processing -> ready | error,
\* and a text source is set ready straight from pending.
C4_LifecycleByKind ==
    [][\A s \in Sources :
        (files'[s].status # files[s].status /\ run'[s].origin = "create") =>
            IF files[s].file_type = "text"
            THEN StatusChange(s) = <<"pending", "ready">>
            ELSE StatusChange(s) \in {<<"pending", "processing">>,
                                      <<"processing", "ready">>,
                                      <<"processing", "error">>}]_vars

C4_Witness ==
    \E s \in Sources :
        /\ Submitted(s)
        /\ files[s].file_type \in {"pdf", "docx"}
        /\ "extract" \in run[s].calls
        /\ files[s].status = "ready"

\* C5: after the run of a submitted source has returned, the source is in
\* status ready or error, never pending or processing.
C5_RunTerminates ==
    \A s \in Sources : Submitted(s) => files[s].status \in {"ready", "error"}

\* C6: a run of process_knowledge_file on a source whose required input is
\* missing ends with status error, and does not invoke extraction.
C6_MissingInputIsError ==
    [][\A s \in Sources :
        (pc[s] = "pkf" /\ MissingInput(files[s]) /\ pc'[s] # "pkf") =>
            /\ pc'[s] = "idle"
            /\ files'[s].status = "error"
            /\ "extract" \notin run'[s].calls]_vars

\* C7: when extraction fails in a run of a pdf or docx source, the run
\* stops with status error and processing_error set to the failure
\* message, and neither chunking nor the embedding call is made.
C7_ExtractionFailureStops ==
    [][\A s \in Sources :
        (/\ pc[s] = "pkf" /\ pc'[s] # "pkf"
         /\ files[s].file_type \in {"pdf", "docx"}
         /\ files[s].file # NoFile
         /\ ~extract_text_from_file(files[s].file, files[s].file_type).ok) =>
            /\ pc'[s] = "idle"
            /\ files'[s].status = "error"
            /\ files'[s].processing_error =
                    extract_text_from_file(files[s].file, files[s].file_type).error
            /\ files'[s].processing_error # Null
            /\ run'[s].calls \cap {"chunk", "embed"} = {}]_vars

C7_Witness ==
    \E s \in Sources :
        /\ pc[s] = "idle"
        /\ "extract_failed" \in run[s].calls
        /\ files[s].status = "error"
        /\ files[s].processing_error = "Failed to extract text from PDF"

\* C8: after a run that succeeds and ends with status ready,
\* processing_error is null, whatever an earlier run recorded.
C8_ReadyClearsError ==
    \A s \in Sources :
        (pc[s] = "idle" /\ run[s].result = "ok" /\ files[s].status = "ready") =>
            files[s].processing_error = Null

\* C9: when a re-run on an existing source ends in ready, the stored index
\* is null or holds the chunks of the current content; an index made from
\* earlier content does not survive.
C9_RerunRederives ==
    [][\A s \in Sources :
        (/\ pc[s] = "emb" /\ pc'[s] = "idle"
         /\ run[s].origin = "direct"
         /\ files'[s].status = "ready") =>
            \/ files'[s].embeddings = NoIndex
            \/ files'[s].embeddings.chunks =
                    chunk_text(files'[s].content, DefaultChunkSize, DefaultOverlap)]_vars

\* C10: editing the content of an existing source through the API resets
\* it to pending and starts the ingestion cycle again.
C10_EditRestarts ==
    [][\A s \in Sources :
        (/\ pc[s] = "idle"
         /\ count'[s].edits = count[s].edits + 1
         /\ files'[s].content # files[s].content) =>
            /\ files'[s].status = "pending"
            /\ pc'[s] # "idle"]_vars

\* the latest run of s has returned, and it repeated the run before it: on
\* the same instance, with the same input, the same answer of the provider
\* and the same outcome of the environment
RepeatedRun(s) ==
    /\ pc[s] = "idle"
    /\ run[s].origin = "direct"
    /\ ~run[s].reloaded
    /\ run[s].prev_result \in {"ok", "fail"}
    /\ run[s].same_input
    /\ run[s].same_response
    /\ run[s].result = run[s].prev_result

\* C11: a second ingestion run on unchanged input, with a provider that
\* answers the same texts with the same vectors, leaves the index (chunks
\* and vectors) that the first run left: the step in which the second run
\* returns does not change them.
C11_RerunIdempotent ==
    [][\A s \in Sources :
        (pc[s] # "idle" /\ RepeatedRun(s)') =>
            /\ files'[s].embeddings.chunks = files[s].embeddings.chunks
            /\ files'[s].embeddings.vectors = files[s].embeddings.vectors]_vars

C11_Witness ==
    \E s \in Sources :
        /\ RepeatedRun(s)
        /\ "stored" \in run[s].calls
        /\ run[s].response.asked
        /\ files[s].embeddings # NoIndex

\* ---------------------------------------------------------------------
\* Properties of semantic_search (SpecSearch)
\* ---------------------------------------------------------------------

\* a search has returned
Searched == call.fn = "semantic_search"

\* the provider gave a vector for the query
QueryEmbedded == call.response.ok /\ call.response.vectors # <<>>

\* the rows a search for call.bot_id is to look at
Eligible ==
    {id \in 1..Len(table) :
        /\ table[id].bot = call.bot_id
        /\ table[id].status = "ready"
        /\ table[id].embeddings # NoIndex}

\* chunk idx (from 0) of row id as a match
Candidate(id, idx) ==
    [file_id |-> id, chunk_index |-> idx,
     chunk_text |-> table[id].embeddings.chunks[idx + 1],
     similarity |-> cosine_similarity(call.response.vectors[1],
                                      table[id].embeddings.vectors[idx + 1])]

\* the candidate chunks of the search: every chunk that has a vector, of
\* every eligible row, with its similarity to the query vector
Candidates ==
    UNION {{Candidate(id, idx) :
                idx \in 0..(Min(Len(table[id].embeddings.chunks),
                                Len(table[id].embeddings.vectors)) - 1)} :
           id \in Eligible}

\* the candidates that are not strictly below min_similarity
Passing == {c \in Candidates : SimGE(c.similarity, call.min_similarity)}

\* every candidate has a vector of the dimension of the query vector
Comparable == \A c \in Candidates : ~c.similarity.raised

\* C12: every match comes from a row that at the time of the search
\* belongs to bot_id, has status ready and a non-null index, and is a chunk
\* of that index.
C12_MatchesFromReadyRowsOfBot ==
    Searched =>
        \A i \in 1..Len(call.ret) :
            LET m == call.ret[i]
            IN  /\ m.file_id \in 1..Len(table)
                /\ table[m.file_id].bot = call.bot_id
                /\ table[m.file_id].status = "ready"
                /\ table[m.file_id].embeddings # NoIndex
                /\ m.chunk_index < Len(table[m.file_id].embeddings.chunks)
                /\ m.chunk_text = table[m.file_id].embeddings.chunks[m.chunk_index + 1]

C12_Witness ==
    /\ Searched
    /\ call.ret # <<>>
    /\ \E id \in 1..Len(table) :
          table[id].embeddings # NoIndex
            /\ (table[id].bot # call.bot_id \/ table[id].status # "ready")

\* the matches are in descending order of similarity
Descending(ret) ==
    \A i, j \in 1..Len(ret) :
        i < j => SimGE(ret[i].similarity, ret[j].similarity)

\* C13: the result is the candidates that are not strictly below
\* min_similarity (one equal to it is kept), in descending order of
\* similarity, cut to the first top_k; the filter comes before the cut.
\* Checked for a top_k that is a count (top_k >= 0), a query the provider
\* embedded and candidates of the dimension of the query.
C13_FilterSortTruncate ==
    (Searched /\ QueryEmbedded /\ Comparable /\ call.top_k >= 0) =>
        /\ Len(call.ret) = Min(call.top_k, Cardinality(Passing))
        /\ \A i \in 1..Len(call.ret) : call.ret[i] \in Passing
        /\ \A i, j \in 1..Len(call.ret) : i # j => call.ret[i] # call.ret[j]
        /\ Descending(call.ret)
        /\ \A c \in Passing :
              (\A i \in 1..Len(call.ret) : call.ret[i] # c) =>
                  \A i \in 1..Len(call.ret) :
                      SimGE(call.ret[i].similarity, c.similarity)

\* three candidates read as 1, 3/5, 4/5 with min_similarity 7/10 and
\* top_k 2 give 1, 4/5
C13_Witness ==
    /\ Searched /\ QueryEmbedded /\ Comparable
    /\ Cardinality(Candidates) = 3
    /\ call.top_k = 2
    /\ call.min_similarity = Threshold(7, 10)
    /\ Len(call.ret) = 2
    /\ call.ret[1].file_id = 2
    /\ call.ret[1].similarity = cosine_similarity(QueryVector, <<1, 0>>)
    /\ call.ret[2].similarity = cosine_similarity(QueryVector, <<4, 3>>)

\* C14: the matches are in descending order of similarity, and matches of
\* equal similarity are in the order of source id, then chunk index.
C14_TiesBySourceId ==
    Searched =>
        /\ Descending(call.ret)
        /\ \A i, j \in 1..Len(call.ret) :
              (i < j /\ SimGE(call.ret[j].similarity, call.ret[i].similarity)) =>
                  \/ call.ret[i].file_id < call.ret[j].file_id
                  \/ /\ call.ret[i].file_id = call.ret[j].file_id
                     /\ call.ret[i].chunk_index < call.ret[j].chunk_index

Max(a, b) == IF a > b THEN a ELSE b

\* C15: the number of matches is at most top_k, for every integer top_k;
\* here even with a negative top_k counted as 0.
C15_AtMostTopK ==
    Searched => Len(call.ret) <= Max(call.top_k, 0)

\* C16: semantic_search returns no error to its caller, and returns the
\* empty sequence when there are no candidates, when none passes the
\* filter, and when an exception was caught.
C16_NeverRaises ==
    Searched =>
        /\ ~call.raised
        /\ call.caught => call.ret = <<>>
        /\ (QueryEmbedded /\ Comparable /\ Passing = {}) => call.ret = <<>>
        /\ ~QueryEmbedded => call.ret = <<>>

C16_Witness ==
    /\ Searched
    /\ call.caught
    /\ QueryEmbedded
    /\ Eligible # {}
    /\ call.ret = <<>>

\* ---------------------------------------------------------------------
\* Properties of cosine_similarity (SpecCosine)
\* ---------------------------------------------------------------------

\* the vector has zero norm
ZeroNorm(v) == Dot(v, v) = 0

\* C17 as stated: cosine_similarity returns 0.0 and does not raise
\* whenever at least one of its two arguments has zero norm.
C17_ZeroNormGivesZero ==
    (call.fn = "cosine_similarity" /\ (ZeroNorm(call.vec1) \/ ZeroNorm(call.vec2))) =>
        /\ ~call.ret.raised
        /\ call.ret.n = 0

\* C17 amended: the same, for two arguments of the same length.
C17_ZeroNormSameLength ==
    (/\ call.fn = "cosine_similarity"
     /\ Len(call.vec1) = Len(call.vec2)
     /\ (ZeroNorm(call.vec1) \/ ZeroNorm(call.vec2))) =>
        /\ ~call.ret.raised
        /\ call.ret.n = 0

C17_Witness ==
    /\ call.fn = "cosine_similarity"
    /\ call.vec1 = <<0, 0>>
    /\ call.vec2 = <<1, -1>>
    /\ ~call.ret.raised
    /\ call.ret.n = 0

\* ---------------------------------------------------------------------
\* Properties of chunk_text (SpecChunk)
\* ---------------------------------------------------------------------

\* chunk_text has returned
Chunked == call.fn = "chunk_text" /\ call.at = "done"

\* the paragraphs of a text, stripped, without the empty ones
RECURSIVE StripAll(_)
StripAll(parts) ==
    IF parts = <<>> THEN <<>>
    ELSE (IF Strip(Head(parts)) = <<>> THEN <<>> ELSE <<Strip(Head(parts))>>)
            \o StripAll(Tail(parts))

NonEmptyParagraphs(text) == StripAll(Split(text))

IsPrefix(a, b) == Len(a) <= Len(b) /\ SubSeq(b, 1, Len(a)) = a

IsSuffix(a, b) == Len(a) <= Len(b) /\ SubSeq(b, Len(b) - Len(a) + 1, Len(b)) = a

\* chunk without its first n characters and the blank line after them
AfterOverlap(chunk, n) ==
    IF n = 0 THEN chunk ELSE SubSeq(chunk, n + 3, Len(chunk))

\* the chunks, each without some first n <= overlap characters that repeat
\* the end of the chunk before it (prev), give the paragraphs one after the
\* other
RECURSIVE Rebuilds(_, _, _, _)
Rebuilds(chunks, prev, paragraphs, overlap) ==
    IF chunks = <<>> THEN paragraphs = <<>>
    ELSE LET chunk == Head(chunks)
         IN  \E n \in 0..Len(chunk) :
                /\ n <= overlap \/ n = 0
                /\ IsSuffix(SubSeq(chunk, 1, n), prev)
                /\ n > 0 => /\ Len(chunk) >= n + 3
                            /\ SubSeq(chunk, n + 1, n + 2) = ParSep
                /\ LET own == Split(AfterOverlap(chunk, n))
                   IN  /\ IsPrefix(own, paragraphs)
                       /\ Rebuilds(Tail(chunks), chunk,
                                   SubSeq(paragraphs, Len(own) + 1, Len(paragraphs)),
                                   overlap)

\* C18: the chunks keep the order of the paragraphs, and put one after the
\* other with the repeated overlap removed they give exactly the non-empty
\* paragraphs of the text, each once and whole; the stepped loop returns
\* what chunk_text returns.
C18_ChunksRebuildParagraphs ==
    Chunked =>
        /\ call.ret = chunk_text(call.text, call.chunk_size, call.overlap)
        /\ Rebuilds(call.ret, <<>>, NonEmptyParagraphs(call.text), call.overlap)

\* "a", "bc", "def" with chunk_size 4 and overlap 3: the carried overlap
\* "\nbc" starts inside the blank line, and the second chunk repeats "bc"
C18_Witness ==
    /\ Chunked
    /\ call.chunk_size = 4
    /\ call.overlap = 3
    /\ NonEmptyParagraphs(call.text) = <<<<"a">>, <<"b", "c">>, <<"d", "e", "f">>>>
    /\ call.ret = << <<"a", NL, NL, "b", "c">>,
                     <<"b", "c", NL, NL, "d", "e", "f">> >>

\* C19: a chunk has at most chunk_size characters, unless it holds a
\* paragraph that is itself longer than chunk_size.
C19_ChunkWithinSize ==
    Chunked =>
        \A k \in 1..Len(call.ret) :
            \/ Len(call.ret[k]) <= call.chunk_size
            \/ \E i \in 1..Len(Split(call.ret[k])) :
                  /\ Len(Split(call.ret[k])[i]) > call.chunk_size
                  /\ \E j \in 1..Len(NonEmptyParagraphs(call.text)) :
                        NonEmptyParagraphs(call.text)[j] = Split(call.ret[k])[i]

\* C20: with overlap > 0, whenever the loop flushes the buffer, the next
\* buffer is the last overlap characters of the flushed buffer (all of it
\* when it is not longer than overlap), a blank line, and the new paragraph.
C20_FlushCarriesOverlap ==
    [][(/\ call.fn = "chunk_text"
        /\ call'.fn = "chunk_text"
        /\ call.overlap > 0
        /\ Len(call'.st.chunks) = Len(call.st.chunks) + 1) =>
            call'.st.current_chunk =
                LastChars(call.st.current_chunk, call.overlap)
                    \o ParSep \o Strip(Head(call.paragraphs))]_vars

\* ---------------------------------------------------------------------
\* Properties of generate_embeddings (SpecEmbed)
\* ---------------------------------------------------------------------

\* C21: the embedding call returns one vector per input text or fails with
\* the embedding error; a response with another number of vectors is
\* never returned as a result.
C21_OneVectorPerText ==
    (call.fn = "generate_embeddings" /\ call.ret.ok) =>
        Len(call.ret.vectors) = Len(call.texts)


\* build_rag_context has returned
Built == call.fn = "build_rag_context"

\* C22: the string returned by build_rag_context has at most max_context
\* characters, for every max_context.
C22_ContextWithinMax ==
    Built => Len(call.ret) <= call.max_context

\* the blocks of the first k ranked results
Blocks(k) ==
    [i \in 1..k |->
        SourceBlock(table[call.results[i].file_id].name, call.results[i].chunk_text)]

\* the characters of the header and of the first k blocks
RECURSIVE LengthUpTo(_)
LengthUpTo(k) == IF k = 0 THEN Len(Header) ELSE LengthUpTo(k - 1) + Len(Blocks(k)[k])

\* the number of blocks before the first one that does not fit
Fitting ==
    CHOOSE k \in 0..Len(call.results) :
        /\ \A j \in 1..k : LengthUpTo(j) <= call.max_context
        /\ k < Len(call.results) => LengthUpTo(k + 1) > call.max_context

\* C26: the source blocks of the output are the whole blocks of the ranked
\* results before the first one that would exceed max_context, in ranked
\* order; no later block follows it.
C26_BlocksArePrefix ==
    (Built /\ call.results # <<>>) =>
        call.ret = Join(<<NL>>, <<Header>> \o Blocks(Fitting))

\* C26 case: the first ranked block does not fit, the second one would, and
\* the output holds no block.
C26_Witness ==
    /\ Built
    /\ Len(call.results) = 2
    /\ LengthUpTo(1) > call.max_context
    /\ Len(Header) + Len(Blocks(2)[2]) <= call.max_context
    /\ call.ret = Header

\* C30: build_rag_context returns the empty string or a string with at
\* least one source block; the empty string when no candidate cleared
\* min_similarity, and never the header line alone.
C30_EmptyOrWithBlock ==
    Built =>
        /\ call.results = <<>> => call.ret = <<>>
        /\ call.ret = <<>> \/ \E k \in 1..Len(call.results) :
                                 call.ret = Join(<<NL>>, <<Header>> \o Blocks(k))


\* the submission run of text source s chunked its content, got one vector
\* per chunk and stored the index
IngestedText(s) ==
    /\ Submitted(s)
    /\ files[s].file_type = "text"
    /\ "stored" \in run[s].calls
    /\ files[s].status = "ready"
    /\ Len(files[s].embeddings.vectors) = Len(files[s].embeddings.chunks)

\* C23: after an ingestion run of a text source in which chunking and
\* embedding succeed, a later semantic_search for the source's bot with
\* top_k >= 1 and min_similarity not above the chunk's similarity returns
\* the source's chunk with chunk_index 0.
C23_IngestedIsFound ==
    \A s \in Sources :
        IngestedText(s) =>
            LET found == semantic_search([ok |-> TRUE, vectors |-> <<QueryVector>>],
                                         files[s].bot, 1, Threshold(-1, 1))
            IN  \E i \in 1..Len(found) :
                    /\ found[i].file_id = s
                    /\ found[i].chunk_index = 0
                    /\ found[i].chunk_text = files[s].embeddings.chunks[1]


\* a step gives source s another index
Reindexed(s) ==
    /\ files'[s].embeddings # files[s].embeddings
    /\ files'[s].embeddings # NoIndex

\* the chunks and the vectors of the new index of s both come from the run
\* that wrote it
PairFromOneRun(s) ==
    /\ files'[s].embeddings.chunks =
           chunk_text(files'[s].content, DefaultChunkSize, DefaultOverlap)
    /\ files'[s].embeddings.vectors = run'[s].response.vectors

\* every step that gives a source another index writes chunks and vectors of
\* the same run
IndexWrittenByOneRun == [][\A s \in Sources : Reindexed(s) => PairFromOneRun(s)]_vars

\* C24: chunks and vectors of a source are replaced together in one step, so
\* that a search never reads chunks of one run with vectors of another and
\* never reads a pair with different lengths.
C24_ReplacedTogether ==
    [][\A s \in Sources :
          Reindexed(s) =>
              /\ PairFromOneRun(s)
              /\ Len(files'[s].embeddings.chunks) = Len(files'[s].embeddings.vectors)]_vars


\* C25: in one ingestion run of one source the embedding provider is called
\* at most once, and after a failed call it is not called again in that
\* run.
C25_ProviderCalledOnce ==
    \A s \in Sources :
        /\ run[s].provider_calls <= 1
        /\ "embed" \in run[s].calls => run[s].provider_calls = 1

\* C25 case: a run whose one call of the provider failed has returned.
C25_Witness ==
    \E s \in Sources :
        /\ pc[s] = "idle"
        /\ "embed_raised" \in run[s].calls
        /\ run[s].provider_calls = 1


\* every page or paragraph and every table row of the file is empty or
\* whitespace
OnlyWhitespace(file) ==
    /\ \A i \in 1..Len(file.parts) : Strip(file.parts[i]) = <<>>
    /\ \A i \in 1..Len(file.rows) : Strip(file.rows[i]) = <<>>

\* C27: for a pdf or docx source whose extraction yields no text or only
\* whitespace, extraction fails and the ingestion run ends with status
\* error, not ready with whitespace-only content.
C27_WhitespaceExtractionFails ==
    \A s \in Sources :
        (/\ Submitted(s)
         /\ files[s].file_type \in {"pdf", "docx"}
         /\ "extract" \in run[s].calls
         /\ OnlyWhitespace(files[s].file)) =>
            /\ "extract_failed" \in run[s].calls
            /\ files[s].status = "error"


\* semantic_search can see source s: status ready and a non-null index
Visible(s) == Indexed(s) /\ files[s].status = "ready"

\* C28: in every reachable state, also during an ingestion run and after an
\* edit of the content, a source that semantic_search can see has stored
\* chunks equal to the chunking of its current content with the stored
\* chunk_size and overlap.
C28_VisibleIndexIsCurrent ==
    \A s \in Sources :
        Visible(s) =>
            /\ Truthy(files[s].content)
            /\ files[s].embeddings.chunks =
                   chunk_text(files[s].content, files[s].embeddings.chunk_size,
                              files[s].embeddings.overlap)


\* the candidates whose vector has the dimension of the query vector and
\* whose similarity is not below min_similarity
WellFormedPassing ==
    {c \in Candidates : ~c.similarity.raised /\ SimGE(c.similarity, call.min_similarity)}

\* C29: a defect in the stored index of one source of the bot (vectors of
\* another dimension than the query vector, or no usable vectors) does not
\* change what the search returns for the other sources: with top_k not
\* below their number, every passing chunk of a well-formed source is
\* returned.
C29_DefectIsLocal ==
    (Searched /\ QueryEmbedded /\ call.top_k >= Cardinality(WellFormedPassing)) =>
        \A c \in WellFormedPassing :
            \E i \in 1..Len(call.ret) : call.ret[i] = c

====
